---- MODULE Spec2Model ----
(***************************************************************************)
(* SPOTWISE service-request lifecycle: the request store (mongoose model   *)
(* `Request` with its pre-save / pre-find / pre-findOne hooks), the user   *)
(* store, and the express handlers of serviceRequestController.js,         *)
(* authController.js and updateProviderStatus.                             *)
(*                                                                         *)
(* Every handler is an async function; each `await` on a store operation   *)
(* is one atomic step, and handler invocations interleave at those awaits. *)
(* A handler invocation in flight occupies a slot of `calls`, which holds  *)
(* its position (pc) and its local variables (the documents it loaded).    *)
(*                                                                         *)
(* Time is counted in minutes (`duration` is in minutes).                  *)
(*                                                                         *)
(* A behaviour holds at most MaxInvocations handler invocations, running   *)
(* one after the other or interleaved, at any times up to MaxTime.         *)
(***************************************************************************)
EXTENDS Integers, Sequences, FiniteSets, TLC

VARIABLES requests, users, calls, now, invocations, streams,
          socketService, locationTrackingService, eventService, hub

\* the server: the stores, the handlers in flight, the clock, the connections
server == <<requests, users, calls, now, invocations, streams>>

\* a provider's page: window.socketService, window.locationTrackingService,
\* window.eventService and the globals of location-service.js
page == <<socketService, locationTrackingService, eventService, hub>>

vars == <<server, page>>

(***************************************************************************)
(* Bounds                                                                  *)
(***************************************************************************)
MaxRequests == 2
MaxTime     == 2
NumCalls    == 2
MaxInvocations == 2
MaxStreams == 1
MaxMessages == 3
MaxReadings == 3
MaxFailures == 12
MaxTimers == 2

Slots    == 1..NumCalls
ReqIds   == 1..MaxRequests

Seekers   == {"s1"}
Providers == {"p1", "p2"}
Users     == Seekers \cup Providers

\* a second registered seeker, who owns no request
OtherSeekers == {"s2"}
AllUsers     == Users \cup OtherSeekers

Role(u) == IF u \in Seekers \cup OtherSeekers THEN "seeker" ELSE "provider"

\* duration values a seeker submits (minutes)
Durations == {1}

\* service categories (request.category, user.skills)
Categories == {"plumbing", "electrical"}

\* Positions lie on one line and are given by their offset in km, so the
\* distance between two positions is the difference of their offsets.
\* Providers stand at Home; seekers' requests are Near or Far from it.
Home == 0
Near == 2
Far  == 10
Locations == {Near, Far}

\* location: { type: 'Point', coordinates: [] }, what a user registered by
\* /register has (no coordinates are given there)
NoLocation == -1

\* Math.floor(100000 + Math.random() * 900000) ranges over 100000..999999;
\* the two ends of that range are the generated values explored
MinPin == 100000
MaxPin == 999999
GeneratedPins == {MinPin, MaxPin}

(***************************************************************************)
(* Values                                                                  *)
(***************************************************************************)
Undefined == <<"undefined", 0>>
String(n) == <<"string", n>>
Number(n) == <<"number", n>>

\* what a client may put in the `pin` member of the body of /complete/:id
SubmittedPins == {Undefined} \cup {String(n) : n \in GeneratedPins}

Null == "null"

NullDoc == [seeker |-> Null, category |-> "", location |-> NoLocation,
            status |-> Null, provider |-> Null,
            generatedPin |-> Undefined, pinGeneratedAt |-> Undefined,
            expirationTime |-> 0, duration |-> 0, history |-> <<>>]

NoResult == [code |-> 0, message |-> "", body |-> {}]

\* req.body of a request that is not a POST /create
NoBody == [category |-> "", description |-> "", contactNumber |-> "",
           location |-> NoLocation, duration |-> Undefined]

\* `error` is the error thrown inside the handler's try block, "" when none
Idle == [op |-> "idle", pc |-> "idle", actor |-> Null, rid |-> 0,
         pin |-> Undefined, body |-> NoBody, user |-> Null, doc |-> NullDoc,
         currentTime |-> 0, error |-> "", result |-> NoResult]

\* a user without an open GET /events connection.  Of an open one, `changes`
\* are the change events whose callback has not finished, `pc` the position
\* of the callback of the first of them, `written` what res.write sent
Closed == [open |-> FALSE, changes |-> <<>>, pc |-> "idle", written |-> <<>>]

(***************************************************************************)
(* requestSchema                                                           *)
(***************************************************************************)
\* req.body of POST /create: category, description and contactNumber are
\* strings, "" when missing or empty; duration is a number or is missing;
\* location is the position of the request
Bodies ==
    [category : Categories \cup {""}, description : {"leak", ""},
     contactNumber : {"9876543210", ""}, location : {Near},
     duration : {Undefined, Number(0)} \cup {Number(d) : d \in Durations}]

\* the checks the route POST /create lists (express-validator)
check(body) ==
    /\ body.category # ""
    /\ body.description # ""
    /\ body.contactNumber # ""
    /\ body.duration # Undefined /\ body.duration[2] >= 1

\* the body the typical seeker sends
Typical ==
    [category |-> "plumbing", description |-> "leak", contactNumber |-> "9876543210",
     location |-> Near, duration |-> Number(1)]

\* the schema's validation, which save() runs before the pre-save hooks:
\* the `required` paths (a required string rejects ""; a number passes
\* whatever its value)
validate(body) ==
    /\ body.category # ""
    /\ body.description # ""
    /\ body.contactNumber # ""
    /\ body.duration # Undefined

\* new ServiceRequest({seeker, category, ..., location, duration, ...}) with
\* the schema defaults; pinGeneratedAt has none
newRequest(userId, body) ==
    [seeker |-> userId, category |-> body.category, location |-> body.location,
     status |-> "pending", provider |-> Null,
     generatedPin |-> Undefined, pinGeneratedAt |-> Undefined,
     expirationTime |-> 0, duration |-> body.duration[2],
     history |-> <<>>]

\* the hook with the duration left out of the sum
preSaveExpiration_now(doc, t) == [doc EXCEPT !.expirationTime = t]

\* requestSchema.pre('save') #1: expirationTime = Date.now() + duration
preSaveExpiration(doc, t) == [doc EXCEPT !.expirationTime = t + doc.duration]

\* requestSchema.pre('save') #2: the entries pushed on the history array
preSaveHistory(doc, statusModified) ==
    IF statusModified /\ doc.status = "in-progress"
       THEN << [provider |-> doc.provider, status |-> "accepted"] >>
    ELSE IF statusModified /\ doc.status = "completed"
       THEN << [provider |-> doc.provider, status |-> "completed"] >>
    ELSE << >>

\* document.save() of an existing document: the pre-save hooks run on the
\* local copy, then the modified paths are $set on the stored document and
\* the pushed history entries are $push-ed; no condition on the stored status
save(stored, loaded, local, t) ==
    LET hooked == preSaveExpiration(local, t)
        pushed == preSaveHistory(local, local.status # loaded.status)
    IN [stored EXCEPT
          !.status         = IF hooked.status # loaded.status THEN hooked.status ELSE @,
          !.provider       = IF hooked.provider # loaded.provider THEN hooked.provider ELSE @,
          !.generatedPin   = IF hooked.generatedPin # loaded.generatedPin
                                THEN hooked.generatedPin ELSE @,
          !.expirationTime = IF hooked.expirationTime # loaded.expirationTime
                                THEN hooked.expirationTime ELSE @,
          !.history        = @ \o pushed]

\* the filter of both expiry hooks
isExpiredFilter(doc, currentTime) ==
    doc.expirationTime < currentTime /\ doc.status # "expired"

\* the hook with updateOne in the place of updateMany, the first matching
\* document being the one updated
preFind_updateOne(store, currentTime) ==
    [i \in DOMAIN store |->
        IF /\ isExpiredFilter(store[i], currentTime)
           /\ \A j \in DOMAIN store : j < i => ~ isExpiredFilter(store[j], currentTime)
           THEN [store[i] EXCEPT !.status = "expired"]
           ELSE store[i]]

\* requestSchema.pre('find'): updateMany(filter, {status: 'expired'})
preFind(store, currentTime) ==
    [i \in DOMAIN store |->
        IF isExpiredFilter(store[i], currentTime)
           THEN [store[i] EXCEPT !.status = "expired"]
           ELSE store[i]]

\* the hook with a history entry pushed on the document it expires
preFindOne_logged(store, currentTime) ==
    LET matching == {i \in DOMAIN store : isExpiredFilter(store[i], currentTime)}
    IN IF matching = {} THEN {store}
       ELSE {[store EXCEPT ![i].status = "expired",
                           ![i].history = Append(@, [provider |-> store[i].provider,
                                                     status |-> "expired"])] :
               i \in matching}

\* requestSchema.pre('findOne'): updateOne(filter, {status: 'expired'});
\* the set of stores it can leave: one matching document, whichever the
\* store picks, is updated
preFindOne(store, currentTime) ==
    LET matching == {i \in DOMAIN store : isExpiredFilter(store[i], currentTime)}
    IN IF matching = {} THEN {store}
       ELSE {[store EXCEPT ![i].status = "expired"] : i \in matching}

\* Model.findById(id)'s query proper
findById(store, id) == IF id \in DOMAIN store THEN store[id] ELSE NullDoc

(***************************************************************************)
(* The objects of a provider's page, as their constructors leave them.     *)
(***************************************************************************)
\* new SocketService().  `socket` is the state of this.socket ("null" for
\* none), `reconnectTimerId` whether the timer is pending, `emitted` the
\* messages given to socket.emit, `sending` the count that
\* sendPendingMessages logged last, `issued` the messages given to the
\* service so far.
SocketService ==
    [socket |-> "null", connected |-> FALSE, reconnecting |-> FALSE,
     reconnectAttempts |-> 0, maxReconnectAttempts |-> 10,
     initialReconnectDelay |-> 1000, currentReconnectDelay |-> 1000,
     maxReconnectDelay |-> 30000, reconnectTimerId |-> FALSE,
     pendingMessages |-> <<>>, connectionErrorShown |-> FALSE,
     emitted |-> <<>>, sending |-> 0, issued |-> 0]

\* this.lastPosition === null
NoPosition == [position |-> 0, accuracy |-> 0, timestamp |-> -1]

\* new LocationTrackingService().  A position is a point of a meridian, in
\* metres from a reference point, with its accuracy in metres and its
\* timestamp in milliseconds.
LocationTrackingService ==
    [isTracking |-> FALSE, lastPosition |-> NoPosition,
     distanceFilter |-> 10, updateInterval |-> 10000,
     locationListeners |-> {}, batteryFriendly |-> TRUE, minAccuracy |-> 50]

\* new EventService().  `eventSource` is the state of this.eventSource
\* ("null" for none), `timers` the number of setTimeout(() => this.connect())
\* timers that are pending, `initialized` whether init() has run.
EventService ==
    [eventSource |-> "null", reconnectTimeout |-> 5000, maxReconnectTimeout |-> 60000,
     currentReconnectTimeout |-> 5000, reconnectAttempts |-> 0,
     maxReconnectAttempts |-> 10, isConnected |-> FALSE,
     connectionErrorShown |-> FALSE, timers |-> 0, initialized |-> FALSE]

\* the globals of location-service.js and the page's localStorage:
\* isProviderTracking, userRole, providerStatus; `starting` while the promise
\* of startTracking is pending; `clock` is the timestamp of the latest
\* reading of the geolocation API and `readings` their number
Hub == [isProviderTracking |-> FALSE, starting |-> FALSE, userRole |-> "provider",
        providerStatus |-> "offline", clock |-> 0, readings |-> 0]

constructed ==
    /\ socketService = SocketService
    /\ locationTrackingService = LocationTrackingService
    /\ eventService = EventService
    /\ hub = Hub

(***************************************************************************)
(* Initial state: the server starts over a store that holds the registered *)
(* users and up to MaxRequests requests a seeker created at time 0; no     *)
(* handler is running.                                                     *)
(***************************************************************************)
created(userId, body, t) == preSaveExpiration(newRequest(userId, body), t)

\* the stores of up to MaxRequests requests created at time 0 from `bodies`
stores(bodies) ==
    UNION {[1..n -> {created(u, b, 0) : u \in Seekers, b \in bodies}] :
             n \in 0..MaxRequests}

InitialStores == stores({Typical})

\* a user after /register (status 'offline', no skills, no coordinates)
registered(u) ==
    [role |-> Role(u), status |-> "offline", skills |-> {}, location |-> NoLocation]

\* a user after /register and, for a provider, PUT /profile with skills and
\* a location
profiled(u) ==
    IF Role(u) = "provider"
       THEN [registered(u) EXCEPT !.skills = {"plumbing"}, !.location = Home]
       ELSE registered(u)

Init ==
    /\ requests \in InitialStores
    /\ users = [u \in Users |-> profiled(u)]
    /\ calls = [c \in Slots |-> Idle]
    /\ now = 0
    /\ invocations = 0
    /\ streams = [u \in AllUsers |-> Closed]
    /\ constructed

Tick ==
    /\ now < MaxTime
    /\ now' = now + 1
    /\ UNCHANGED <<requests, users, calls, invocations>>

\* a new invocation takes the first free slot
free(c) ==
    /\ calls[c].pc = "idle"
    /\ \A d \in Slots : d < c => calls[d].pc # "idle"

\* a handler is invoked
invoke ==
    /\ invocations < MaxInvocations
    /\ invocations' = invocations + 1

\* the response has been sent; the slot is free again
Return(c) ==
    /\ calls[c].pc = "done"
    /\ calls' = [calls EXCEPT ![c] = Idle]
    /\ UNCHANGED <<requests, users, now, invocations>>

\* res.status(code).json(...): the handler's locals are gone
Respond(c, call, code, message, body) ==
    [Idle EXCEPT !.op = call.op, !.actor = call.actor, !.rid = call.rid,
                 !.pc = "done",
                 !.result = [code |-> code, message |-> message, body |-> body]]

\* an error response, which carries no request data
Finish(c, call, code, message) == Respond(c, call, code, message, {})

\* what a response shows of a request: its id, status and PIN
shown(i, doc, pin) == <<i, doc.status, pin>>

(***************************************************************************)
(* createRequest                                                           *)
(***************************************************************************)
\* The route's checks are not consulted (no validationResult call): the
\* handler goes on to save(), whose validation error lands in the catch.
createRequest(c, actor, body) ==
    /\ free(c)
    /\ LET call == [Idle EXCEPT !.op = "create", !.actor = actor]
           sent(response) == [response EXCEPT !.body = body]
       IN IF users[actor].role # "seeker"
          THEN /\ calls' = [calls EXCEPT ![c] =
                              sent(Finish(c, call, 403,
                                          "Only seekers can create service requests"))]
               /\ UNCHANGED requests
          ELSE IF ~ validate(body)
          THEN /\ calls' = [calls EXCEPT ![c] = sent(Finish(c, call, 500, "Server error"))]
               /\ UNCHANGED requests
          ELSE /\ Len(requests) < MaxRequests
               /\ requests' = Append(requests, created(actor, body, now))
               /\ calls' = [calls EXCEPT ![c] =
                              sent(Respond(c, [call EXCEPT !.rid = Len(requests) + 1],
                                           201, "created",
                                           {shown(Len(requests) + 1,
                                                  created(actor, body, now), Undefined)}))]
    /\ invoke
    /\ UNCHANGED <<users, now>>

(***************************************************************************)
(* acceptRequest                                                           *)
(***************************************************************************)
\* the local copy of the request after lines 104-106
acceptLocal(call) ==
    [call.doc EXCEPT !.status = "in-progress", !.provider = call.actor,
                     !.generatedPin = call.pin]

\* await User.findById(req.user.id); role check; provider status check
acceptRequest_findUser(c, actor, rid) ==
    /\ free(c)
    /\ LET call == [Idle EXCEPT !.op = "accept", !.actor = actor, !.rid = rid,
                                !.user = users[actor].status]
       IN calls' = [calls EXCEPT ![c] =
            IF users[actor].role # "provider"
               THEN Finish(c, call, 403, "Only providers can accept requests")
            ELSE IF call.user = "in-progress"
               THEN Finish(c, call, 400, "You have an active request in progress")
            ELSE [call EXCEPT !.pc = "preFindOne"]]
    /\ invoke
    /\ UNCHANGED <<requests, users, now>>

\* ServiceRequest.findById: the pre('findOne') hook
acceptRequest_preFindOne(c) ==
    /\ calls[c].op = "accept" /\ calls[c].pc = "preFindOne"
    /\ requests' \in preFindOne(requests, now)
    /\ calls' = [calls EXCEPT ![c].pc = "findById", ![c].currentTime = now]
    /\ UNCHANGED <<users, now, invocations>>

\* acceptRequest_findById with the check of the request's status left out
acceptRequest_findById_unchecked(c, n) ==
    /\ calls[c].op = "accept" /\ calls[c].pc = "findById"
    /\ LET request == findById(requests, calls[c].rid)
           call == [calls[c] EXCEPT !.doc = request]
       IN calls' = [calls EXCEPT ![c] =
            IF request = NullDoc
               THEN Finish(c, call, 404, "Service request not found")
            ELSE [call EXCEPT !.pin = String(n), !.user = Null, !.currentTime = 0,
                              !.pc = "saveUser"]]
    /\ UNCHANGED <<requests, users, now, invocations>>

\* ServiceRequest.findById: the query, then lines 98-106
acceptRequest_findById(c, n) ==
    /\ calls[c].op = "accept" /\ calls[c].pc = "findById"
    /\ LET request == findById(requests, calls[c].rid)
           call == [calls[c] EXCEPT !.doc = request]
       IN calls' = [calls EXCEPT ![c] =
            IF request = NullDoc
               THEN Finish(c, call, 404, "Service request not found")
            ELSE IF request.status # "pending"
               THEN Finish(c, call, 400, "Request is no longer active")
            ELSE [call EXCEPT !.pin = String(n), !.user = Null, !.currentTime = 0,
                              !.pc = "saveUser"]]
    /\ UNCHANGED <<requests, users, now, invocations>>

\* user.status = 'in-progress'; await user.save()
acceptRequest_saveUser(c) ==
    /\ calls[c].op = "accept" /\ calls[c].pc = "saveUser"
    /\ users' = [users EXCEPT ![calls[c].actor].status = "in-progress"]
    /\ calls' = [calls EXCEPT ![c].pc = "saveRequest"]
    /\ UNCHANGED <<requests, now, invocations>>

\* await request.save(); res.status(200)
acceptRequest_saveRequest(c) ==
    /\ calls[c].op = "accept" /\ calls[c].pc = "saveRequest"
    /\ LET rid == calls[c].rid
       IN requests' = [requests EXCEPT ![rid] =
                         save(requests[rid], calls[c].doc, acceptLocal(calls[c]), now)]
    /\ calls' = [calls EXCEPT ![c] =
                   Respond(c, calls[c], 200, "Request accepted",
                           {shown(calls[c].rid, acceptLocal(calls[c]), calls[c].pin)})]
    /\ UNCHANGED <<users, now, invocations>>

(***************************************************************************)
(* completeRequest                                                         *)
(***************************************************************************)
completeLocal(call) == [call.doc EXCEPT !.status = "completed"]

\* ServiceRequest.findById: the pre('findOne') hook (no role check precedes)
completeRequest_preFindOne(c, actor, rid, pin) ==
    /\ free(c)
    /\ requests' \in preFindOne(requests, now)
    /\ calls' = [calls EXCEPT ![c] =
                   [Idle EXCEPT !.op = "complete", !.actor = actor, !.rid = rid,
                                !.pin = pin, !.pc = "findById", !.currentTime = now]]
    /\ invoke
    /\ UNCHANGED <<users, now>>

\* ServiceRequest.findById: the query, then the PIN comparison (!==)
completeRequest_findById(c) ==
    /\ calls[c].op = "complete" /\ calls[c].pc = "findById"
    /\ LET request == findById(requests, calls[c].rid)
           call == [calls[c] EXCEPT !.doc = request]
       IN calls' = [calls EXCEPT ![c] =
            IF request = NullDoc
               THEN Finish(c, call, 404, "Service request not found")
            ELSE IF request.generatedPin # call.pin
               THEN Finish(c, call, 400, "Invalid PIN")
            ELSE [call EXCEPT !.currentTime = 0, !.pc = "saveRequest"]]
    /\ UNCHANGED <<requests, users, now, invocations>>

\* request.status = 'completed'; await request.save()
completeRequest_saveRequest(c) ==
    /\ calls[c].op = "complete" /\ calls[c].pc = "saveRequest"
    /\ LET rid == calls[c].rid
       IN requests' = [requests EXCEPT ![rid] =
                         save(requests[rid], calls[c].doc, completeLocal(calls[c]), now)]
    /\ calls' = [calls EXCEPT ![c].pc = "saveUser"]
    /\ UNCHANGED <<users, now, invocations>>

\* User.findById(req.user.id); user.status = 'online'; user.save(); respond.
\* The read and the write are one step: the write does not depend on what
\* was read, so the store passes through the same states either way.
completeRequest_saveUser(c) ==
    /\ calls[c].op = "complete" /\ calls[c].pc = "saveUser"
    /\ users' = [users EXCEPT ![calls[c].actor].status = "online"]
    /\ calls' = [calls EXCEPT ![c] =
                   Respond(c, calls[c], 200, "Request completed successfully",
                           {shown(calls[c].rid, completeLocal(calls[c]),
                                  calls[c].doc.generatedPin)})]
    /\ UNCHANGED <<requests, now, invocations>>

(***************************************************************************)
(* cancelRequest                                                           *)
(***************************************************************************)
cancelLocal(call) == [call.doc EXCEPT !.status = "cancelled"]

\* User.findById (result unused); role check; then findById's pre('findOne')
cancelRequest_preFindOne(c, actor, rid) ==
    /\ free(c)
    /\ LET call == [Idle EXCEPT !.op = "cancel", !.actor = actor, !.rid = rid]
       IN IF users[actor].role # "seeker"
          THEN /\ calls' = [calls EXCEPT ![c] =
                              Finish(c, call, 403, "Only seekers can cancel requests")]
               /\ UNCHANGED requests
          ELSE /\ requests' \in preFindOne(requests, now)
               /\ calls' = [calls EXCEPT ![c] =
                              [call EXCEPT !.pc = "findById", !.currentTime = now]]
    /\ invoke
    /\ UNCHANGED <<users, now>>

\* cancelRequest_findById with the status check accepting in-progress too
cancelRequest_findById_lax(c) ==
    /\ calls[c].op = "cancel" /\ calls[c].pc = "findById"
    /\ LET request == findById(requests, calls[c].rid)
           call == [calls[c] EXCEPT !.doc = request]
       IN calls' = [calls EXCEPT ![c] =
            IF request = NullDoc
               THEN Finish(c, call, 404, "Service request not found")
            ELSE IF request.status \notin {"pending", "in-progress"}
               THEN Finish(c, call, 400, "Request is in progress and cannot be cancelled.")
            ELSE [call EXCEPT !.currentTime = 0, !.pc = "saveRequest"]]
    /\ UNCHANGED <<requests, users, now, invocations>>

\* ServiceRequest.findById: the query, then the status check
cancelRequest_findById(c) ==
    /\ calls[c].op = "cancel" /\ calls[c].pc = "findById"
    /\ LET request == findById(requests, calls[c].rid)
           call == [calls[c] EXCEPT !.doc = request]
       IN calls' = [calls EXCEPT ![c] =
            IF request = NullDoc
               THEN Finish(c, call, 404, "Service request not found")
            ELSE IF request.status # "pending"
               THEN Finish(c, call, 400, "Request is in progress and cannot be cancelled.")
            ELSE [call EXCEPT !.currentTime = 0, !.pc = "saveRequest"]]
    /\ UNCHANGED <<requests, users, now, invocations>>

cancelRequest_saveRequest(c) ==
    /\ calls[c].op = "cancel" /\ calls[c].pc = "saveRequest"
    /\ LET rid == calls[c].rid
       IN requests' = [requests EXCEPT ![rid] =
                         save(requests[rid], calls[c].doc, cancelLocal(calls[c]), now)]
    /\ calls' = [calls EXCEPT ![c] =
                   Finish(c, calls[c], 200, "Request cancelled successfully")]
    /\ UNCHANGED <<users, now, invocations>>

(***************************************************************************)
(* getRequestPin                                                           *)
(***************************************************************************)
getRequestPin_preFindOne(c, actor, rid) ==
    /\ free(c)
    /\ requests' \in preFindOne(requests, now)
    /\ calls' = [calls EXCEPT ![c] =
                   [Idle EXCEPT !.op = "pin", !.actor = actor, !.rid = rid,
                                !.pc = "findById", !.currentTime = now]]
    /\ invoke
    /\ UNCHANGED <<users, now>>

\* getRequestPin_findById with the comparison of seeker and caller left out
getRequestPin_findById_anyone(c) ==
    /\ calls[c].op = "pin" /\ calls[c].pc = "findById"
    /\ LET request == findById(requests, calls[c].rid)
           call == [calls[c] EXCEPT !.doc = request]
       IN calls' = [calls EXCEPT ![c] =
            IF request = NullDoc
               THEN Finish(c, call, 404, "Request not found")
            ELSE IF request.status # "in-progress"
               THEN Finish(c, call, 400, "PIN is only available for in-progress requests")
            ELSE Respond(c, call, 200, "pin",
                         {shown(call.rid, request, request.generatedPin)})]
    /\ UNCHANGED <<requests, users, now, invocations>>

getRequestPin_findById(c) ==
    /\ calls[c].op = "pin" /\ calls[c].pc = "findById"
    /\ LET request == findById(requests, calls[c].rid)
           call == [calls[c] EXCEPT !.doc = request]
       IN calls' = [calls EXCEPT ![c] =
            IF request = NullDoc
               THEN Finish(c, call, 404, "Request not found")
            ELSE IF request.seeker # call.actor
               THEN Finish(c, call, 403, "Not authorized to access this request")
            ELSE IF request.status # "in-progress"
               THEN Finish(c, call, 400, "PIN is only available for in-progress requests")
            ELSE Respond(c, call, 200, "pin",
                         {shown(call.rid, request, request.generatedPin)})]
    /\ UNCHANGED <<requests, users, now, invocations>>

(***************************************************************************)
(* getRequestHistory                                                       *)
(***************************************************************************)
\* the query: {seeker: userId} for a seeker, {'history.provider': userId}
\* for a provider
historyQuery(store, userId, role) ==
    IF role = "seeker"
       THEN {i \in DOMAIN store : store[i].seeker = userId}
       ELSE {i \in DOMAIN store :
               \E k \in DOMAIN store[i].history : store[i].history[k].provider = userId}

\* ServiceRequest.find(...): the pre('find') hook
getRequestHistory_preFind(c, actor) ==
    /\ free(c)
    /\ requests' = preFind(requests, now)
    /\ calls' = [calls EXCEPT ![c] =
                   [Idle EXCEPT !.op = "history", !.actor = actor,
                                !.pc = "find", !.currentTime = now]]
    /\ invoke
    /\ UNCHANGED <<users, now>>

\* the query; the response lists the matching requests, with the PIN of
\* the in-progress ones for a seeker
getRequestHistory_find(c) ==
    /\ calls[c].op = "history" /\ calls[c].pc = "find"
    /\ LET userId == calls[c].actor
           role == users[userId].role
       IN calls' = [calls EXCEPT ![c] =
            Respond(c, calls[c], 200, role,
                    {shown(i, requests[i],
                           IF role = "seeker" /\ requests[i].status = "in-progress"
                              THEN requests[i].generatedPin ELSE Undefined) :
                       i \in historyQuery(requests, userId, role)})]
    /\ UNCHANGED <<requests, users, now, invocations>>

(***************************************************************************)
(* getActiveRequests                                                       *)
(***************************************************************************)
\* getActiveRequests_findUser with the location check left out
getActiveRequests_findUser_unlocated(c, actor) ==
    /\ free(c)
    /\ LET call == [Idle EXCEPT !.op = "active", !.actor = actor,
                                !.user = users[actor].status]
       IN calls' = [calls EXCEPT ![c] =
            IF users[actor].role # "provider"
               THEN Finish(c, [call EXCEPT !.user = Null], 403,
                           "Only providers can view service requests")
            ELSE IF call.user = "in-progress"
               THEN Finish(c, call, 400, "You have an ongoing request in progress.")
            ELSE [call EXCEPT !.pc = "preFind"]]
    /\ invoke
    /\ UNCHANGED <<requests, users, now>>

\* role check; User.findById; provider status check; location check
getActiveRequests_findUser(c, actor) ==
    /\ free(c)
    /\ LET call == [Idle EXCEPT !.op = "active", !.actor = actor,
                                !.user = users[actor].status]
       IN calls' = [calls EXCEPT ![c] =
            IF users[actor].role # "provider"
               THEN Finish(c, [call EXCEPT !.user = Null], 403,
                           "Only providers can view service requests")
            ELSE IF call.user = "in-progress"
               THEN Finish(c, call, 400, "You have an ongoing request in progress.")
            ELSE IF users[actor].location = NoLocation
               THEN Finish(c, call, 400, "Invalid location")
            ELSE [call EXCEPT !.pc = "preFind"]]
    /\ invoke
    /\ UNCHANGED <<requests, users, now>>

getActiveRequests_preFind(c) ==
    /\ calls[c].op = "active" /\ calls[c].pc = "preFind"
    /\ requests' = preFind(requests, now)
    /\ calls' = [calls EXCEPT ![c].pc = "find", ![c].currentTime = now]
    /\ UNCHANGED <<users, now, invocations>>

\* const radius = 1000 (kilometers)
radius == 1000

\* 6378.1 km in tenths of a km: the divisor of `radius / 6378.1`
EarthRadius == 63781

\* km / 6378.1, an angle in radians, as the fraction <<numerator, denominator>>
radians(km) == <<km * 10, EarthRadius>>

\* x <= y for two such fractions
atMost(x, y) == x[1] * y[2] <= y[1] * x[2]

distance(a, b) == IF a >= b THEN a - b ELSE b - a

\* location: { $geoWithin: { $centerSphere: [center, angle] } }: the angle
\* between the two positions is at most `angle`
geoWithin(location, center, angle) ==
    atMost(radians(distance(location, center)), angle)

\* the query: category in skills, location within radius / 6378.1 of the
\* provider's, expirationTime >= new Date(), status 'pending'
activeQuery(store, user, t) ==
    {i \in DOMAIN store :
        /\ store[i].category \in user.skills
        /\ geoWithin(store[i].location, user.location, radians(radius))
        /\ store[i].expirationTime >= t
        /\ store[i].status = "pending"}

\* the query; the response lists the matching requests.  `skills` and
\* `location` are those of the user loaded by findUser; no handler of the
\* model changes them, so they are read from the user store here.
getActiveRequests_find(c) ==
    /\ calls[c].op = "active" /\ calls[c].pc = "find"
    /\ calls' = [calls EXCEPT ![c] =
            Respond(c, calls[c], 200, "active",
                    {shown(i, requests[i], requests[i].generatedPin) :
                       i \in activeQuery(requests, users[calls[c].actor], now)})]
    /\ UNCHANGED <<requests, users, now, invocations>>

(***************************************************************************)
(* login, logout, updateProviderStatus.  Each reads the user and then      *)
(* writes a status that does not depend on what was read, so each is one   *)
(* step.                                                                   *)
(***************************************************************************)
login(u) ==
    /\ users' = IF users[u].role = "provider"
                   THEN [users EXCEPT ![u].status = "online"]
                   ELSE users
    /\ users' # users
    /\ invoke
    /\ UNCHANGED <<requests, calls, now>>

logout(u) ==
    /\ users' = IF users[u].role = "provider"
                   THEN [users EXCEPT ![u].status = "offline"]
                   ELSE users
    /\ users' # users
    /\ invoke
    /\ UNCHANGED <<requests, calls, now>>

validStatuses == {"online", "offline", "active", "in-progress"}

updateProviderStatus(u, status) ==
    /\ users[u].role = "provider"
    /\ status \in validStatuses
    /\ users[u].status # status
    /\ users' = [users EXCEPT ![u].status = status]
    /\ invoke
    /\ UNCHANGED <<requests, calls, now>>

(***************************************************************************)
(* Store failures inside an expiry hook.  updateMany / updateOne rejects,  *)
(* the hook's catch passes the error to next(error), the query rejects and *)
(* the handler's await throws into the handler's catch block.  A rejected  *)
(* update is taken to have written nothing.                                *)
(***************************************************************************)
\* the throwing step with the error swallowed by the hook (next() without
\* the error): the read goes on
sweepThrows_swallowed(c) ==
    /\ calls[c].pc \in {"preFindOne", "preFind"}
    /\ calls' = [calls EXCEPT ![c].error = "sweep",
                              ![c].currentTime = now,
                              ![c].pc = IF calls[c].pc = "preFind" THEN "find"
                                                                 ELSE "findById"]
    /\ UNCHANGED <<requests, users, now, invocations>>

\* the hook of a handler that stands before its find / findById throws
sweepThrows(c) ==
    /\ calls[c].pc \in {"preFindOne", "preFind"}
    /\ calls' = [calls EXCEPT ![c].error = "sweep", ![c].pc = "catch"]
    /\ UNCHANGED <<requests, users, now, invocations>>

\* the handlers whose first await is the find / findById
ReadsFirst == {"complete", "cancel", "pin", "history"}

\* such a handler is invoked and stands before its find / findById (the
\* role check of cancel passed)
stands(c, op, actor, rid, pin) ==
    /\ free(c)
    /\ op \in ReadsFirst
    /\ op = "cancel" => users[actor].role = "seeker"
    /\ calls' = [calls EXCEPT ![c] =
                   [Idle EXCEPT !.op = op, !.actor = actor,
                                !.pin = IF op = "complete" THEN pin ELSE Undefined,
                                !.rid = IF op = "history" THEN 0 ELSE rid,
                                !.pc = IF op = "history" THEN "preFind" ELSE "preFindOne"]]
    /\ invoke
    /\ UNCHANGED <<requests, users, now>>

\* the hook of such a handler runs
sweepRuns(c) ==
    /\ calls[c].op \in ReadsFirst
    /\ calls[c].pc \in {"preFindOne", "preFind"}
    /\ IF calls[c].pc = "preFind"
          THEN /\ requests' = preFind(requests, now)
               /\ calls' = [calls EXCEPT ![c].pc = "find", ![c].currentTime = now]
          ELSE /\ requests' \in preFindOne(requests, now)
               /\ calls' = [calls EXCEPT ![c].pc = "findById", ![c].currentTime = now]
    /\ UNCHANGED <<users, now, invocations>>

\* user.save() or request.save() of acceptRequest or completeRequest rejects
\* (a store failure): control passes to the handler's catch block
saveThrows(c) ==
    /\ calls[c].op \in {"accept", "complete"}
    /\ calls[c].pc \in {"saveUser", "saveRequest"}
    /\ calls' = [calls EXCEPT ![c].error = "save", ![c].pc = "catch"]
    /\ UNCHANGED <<requests, users, now, invocations>>

\* catch (error) { res.status(500).json({ message: 'Server error' }) }
catch(c) ==
    /\ calls[c].pc = "catch"
    /\ calls' = [calls EXCEPT ![c] =
                   [Finish(c, calls[c], 500, "Server error") EXCEPT
                       !.error = calls[c].error]]
    /\ UNCHANGED <<requests, users, now, invocations>>

(***************************************************************************)
(* The provider's page (location-service.js): acceptRequest(requestId).    *)
(* The run of the function occupies a slot of `calls` with op "client";    *)
(* its `user` field is localStorage's providerStatus.  A fetch either      *)
(* reaches the server and brings its response back, or fails on the        *)
(* network, before or after the server has acted on it.                    *)
(***************************************************************************)
\* updateProviderStatus as one step of the user store (PATCH /api/users/status)
patchStatus(store, u, status) ==
    IF store[u].role = "provider" /\ status \in validStatuses
       THEN [store EXCEPT ![u].status = status]
       ELSE store

\* updateProviderStatusOnBackend(status): the user stores it can leave (the
\* PATCH was handled, or never reached the server); its result is not read
updateProviderStatusOnBackend(store, u, status) ==
    {patchStatus(store, u, status), store}

\* const status = localStorage.getItem('providerStatus'); the online check
client_acceptRequest(c, actor, rid, status) ==
    /\ free(c)
    /\ calls' = [calls EXCEPT ![c] =
                   [Idle EXCEPT !.op = "client", !.actor = actor, !.rid = rid,
                                !.user = status,
                                !.pc = IF status # "online" THEN "done" ELSE "setActive"]]
    /\ UNCHANGED <<requests, users, now, invocations>>

\* await updateProviderStatusOnBackend('active'); localStorage := 'active'
client_setActive(c) ==
    /\ calls[c].op = "client" /\ calls[c].pc = "setActive"
    /\ users' \in updateProviderStatusOnBackend(users, calls[c].actor, "active")
    /\ calls' = [calls EXCEPT ![c].user = "active", ![c].pc = "fetch"]
    /\ UNCHANGED <<requests, now, invocations>>

\* fetch(PATCH /accept/:id) reaches the server: acceptRequest is invoked
client_fetchAccept(c, d) ==
    /\ calls[c].op = "client" /\ calls[c].pc = "fetch"
    /\ \A e \in Slots \ {c} : calls[e].pc = "idle"
    /\ acceptRequest_findUser(d, calls[c].actor, calls[c].rid)

\* the response of the accept arrives: !response.ok or not
client_response(c, d) ==
    /\ calls[c].op = "client" /\ calls[c].pc = "fetch"
    /\ calls[d].op = "accept" /\ calls[d].pc = "done"
    /\ calls' = [calls EXCEPT
                   ![c].pc = IF calls[d].result.code = 200 THEN "setInProgress"
                                                             ELSE "revert",
                   ![d] = Idle]
    /\ UNCHANGED <<requests, users, now, invocations>>

\* the fetch of the accept rejects (network error): control passes to the
\* catch block, which shows an alert
client_fetchRejects(c) ==
    /\ calls[c].op = "client" /\ calls[c].pc = "fetch"
    /\ calls' = [calls EXCEPT ![c].error = "network", ![c].pc = "done"]
    /\ UNCHANGED <<requests, users, now, invocations>>

\* await updateProviderStatusOnBackend('online'); localStorage := 'online';
\* throw
client_revert(c) ==
    /\ calls[c].op = "client" /\ calls[c].pc = "revert"
    /\ users' \in updateProviderStatusOnBackend(users, calls[c].actor, "online")
    /\ calls' = [calls EXCEPT ![c].user = "online", ![c].error = "accept",
                              ![c].pc = "done"]
    /\ UNCHANGED <<requests, now, invocations>>

\* await updateProviderStatusOnBackend('in-progress'); localStorage :=
\* 'in-progress'
client_setInProgress(c) ==
    /\ calls[c].op = "client" /\ calls[c].pc = "setInProgress"
    /\ users' \in updateProviderStatusOnBackend(users, calls[c].actor, "in-progress")
    /\ calls' = [calls EXCEPT ![c].user = "in-progress", ![c].pc = "done"]
    /\ UNCHANGED <<requests, now, invocations>>

(***************************************************************************)
(* GET /events: the connection's change stream over the requests and its   *)
(* 'change' callback.                                                      *)
(***************************************************************************)
\* the change events of the step from store `old` to store `new`, from
\* document i onwards: an insert for a new document, an update for a
\* document that differs.  seeker, provider and status are those the
\* document has right after the change.
RECURSIVE oplog(_, _, _)
oplog(old, new, i) ==
    IF i > Len(new) THEN <<>>
    ELSE LET change(operationType) ==
                <<[operationType |-> operationType, documentKey |-> i,
                   seeker |-> new[i].seeker, provider |-> new[i].provider,
                   status |-> new[i].status]>>
         IN (IF i > Len(old) THEN change("insert")
             ELSE IF old[i] # new[i] THEN change("update")
             ELSE <<>>) \o oplog(old, new, i + 1)

\* ServiceRequest.watch(): every open connection's stream gets the changes
observed(conns, old, new) ==
    [u \in DOMAIN conns |->
        IF conns[u].open
           THEN [conns[u] EXCEPT !.changes = @ \o oplog(old, new, 1)]
           ELSE conns[u]]

\* a step of the server while connections may be open
watched == streams' = observed(streams, requests, requests') /\ UNCHANGED page

\* a step of the server while no connection is open
unwatched == UNCHANGED <<streams, page>>

\* GET /events?token=... with a valid token of user u: the connection opens
\* and the change stream is created
events(u) ==
    /\ ~ streams[u].open
    /\ Cardinality({v \in DOMAIN streams : streams[v].open}) < MaxStreams
    /\ streams' = [streams EXCEPT ![u] = [Closed EXCEPT !.open = TRUE]]
    /\ UNCHANGED <<requests, users, calls, now, invocations, page>>

\* req.on('close'): changeStream.close()
close(u) ==
    /\ streams[u].open
    /\ streams' = [streams EXCEPT ![u] = Closed]
    /\ UNCHANGED <<requests, users, calls, now, invocations, page>>

\* the callback of a change whose operationType is not 'update' does nothing
onChange_ignored(u) ==
    /\ streams[u].open /\ streams[u].pc = "idle" /\ streams[u].changes # <<>>
    /\ Head(streams[u].changes).operationType # "update"
    /\ streams' = [streams EXCEPT ![u].changes = Tail(@)]
    /\ UNCHANGED <<requests, users, calls, now, invocations, page>>

\* the callback of an update: findById(change.documentKey._id), its hook
onChange_preFindOne(u) ==
    /\ streams[u].open /\ streams[u].pc = "idle" /\ streams[u].changes # <<>>
    /\ Head(streams[u].changes).operationType = "update"
    /\ requests' \in preFindOne(requests, now)
    /\ streams' = observed([streams EXCEPT ![u].pc = "findById"], requests, requests')
    /\ UNCHANGED <<users, calls, now, invocations, page>>

\* the query proper, and res.write of the request to its seeker or provider
onChange_findById(u) ==
    /\ streams[u].open /\ streams[u].pc = "findById"
    /\ LET id      == Head(streams[u].changes).documentKey
           request == findById(requests, id)
       IN streams' = [streams EXCEPT
             ![u].changes = Tail(@),
             ![u].pc = "idle",
             ![u].written =
                 IF request # NullDoc /\ (request.seeker = u \/ request.provider = u)
                    THEN Append(@, [event |-> "requestUpdated", id |-> id,
                                    data |-> request])
                    ELSE @]
    /\ UNCHANGED <<requests, users, calls, now, invocations, page>>

(***************************************************************************)
(* SocketService: the socket client of the page.                           *)
(***************************************************************************)
\* Math.random() * 0.3 + 0.85, in hundredths
Jitters == {85, 100, 115}

min(a, b) == IF a <= b THEN a ELSE b

\* connect(): clear the reconnect timer, create the socket
connect(s) == [s EXCEPT !.reconnectTimerId = FALSE, !.socket = "connecting"]

\* scheduleReconnect(): the delay is currentReconnectDelay * 1.5 * jitter,
\* in whole milliseconds
scheduleReconnect(s, jitter) ==
    IF s.reconnecting THEN s
    ELSE IF s.reconnectAttempts + 1 > s.maxReconnectAttempts
       THEN [s EXCEPT !.reconnecting = TRUE, !.reconnectAttempts = @ + 1]
       ELSE [s EXCEPT !.reconnecting = TRUE, !.reconnectAttempts = @ + 1,
                      !.currentReconnectDelay =
                          min((@ * 15 * jitter) \div 1000, s.maxReconnectDelay),
                      !.reconnectTimerId = TRUE]

handleConnectionError(s, jitter) ==
    scheduleReconnect([s EXCEPT !.connected = FALSE, !.connectionErrorShown = TRUE],
                      jitter)

intentionalDisconnects == {"io client disconnect", "io server disconnect"}

handleDisconnection(s, reason, jitter) ==
    IF reason \notin intentionalDisconnects
       THEN scheduleReconnect([s EXCEPT !.connected = FALSE], jitter)
       ELSE [s EXCEPT !.connected = FALSE]

\* emitWithErrorHandling(event, data): queued while there is no socket or
\* the service is not connected, given to socket.emit otherwise
emitWithErrorHandling(s, msg) ==
    IF s.socket = "null" \/ ~ s.connected
       THEN [s EXCEPT !.pendingMessages = Append(@, msg)]
       ELSE [s EXCEPT !.emitted = Append(@, msg)]

\* messagesToSend.forEach(msg => this.emitWithErrorHandling(...))
RECURSIVE forEach(_, _)
forEach(s, messagesToSend) ==
    IF messagesToSend = <<>> THEN s
    ELSE forEach(emitWithErrorHandling(s, Head(messagesToSend)), Tail(messagesToSend))

\* sendPendingMessages with the queue left as it is
sendPendingMessages_kept(s) ==
    IF s.pendingMessages = <<>> THEN s
    ELSE [s EXCEPT !.sending = Len(s.pendingMessages),
                   !.emitted = @ \o s.pendingMessages]

\* sendPendingMessages(): copy the queue, clear it, send the copy
sendPendingMessages(s) ==
    IF s.pendingMessages = <<>> THEN s
    ELSE forEach([s EXCEPT !.sending = Len(s.pendingMessages),
                           !.pendingMessages = <<>>],
                 s.pendingMessages)

handleSuccessfulConnection(s) ==
    sendPendingMessages([s EXCEPT !.connected = TRUE, !.reconnecting = FALSE,
                                  !.reconnectAttempts = 0,
                                  !.currentReconnectDelay = s.initialReconnectDelay,
                                  !.connectionErrorShown = FALSE])

\* DOMContentLoaded: window.socketService.connect()
socket_connect ==
    /\ socketService.socket = "null"
    /\ socketService' = connect(socketService)
    /\ UNCHANGED <<server, locationTrackingService, eventService, hub>>

\* the reconnect timer fires: this.reconnectTimerId = null; this.connect()
socket_reconnect ==
    /\ socketService.reconnectTimerId
    /\ socketService' = connect(socketService)
    /\ UNCHANGED <<server, locationTrackingService, eventService, hub>>

\* socket.on('connect')
socket_onConnect ==
    /\ socketService.socket = "connecting"
    /\ socketService' = handleSuccessfulConnection([socketService EXCEPT !.socket = "open"])
    /\ UNCHANGED <<server, locationTrackingService, eventService, hub>>

\* socket.on('connect_error')
socket_onConnectError(jitter) ==
    /\ socketService.socket = "connecting"
    /\ socketService' = handleConnectionError([socketService EXCEPT !.socket = "failed"],
                                               jitter)
    /\ UNCHANGED <<server, locationTrackingService, eventService, hub>>

\* socket.on('disconnect'): the connection is lost ("closed") or ended by
\* the server ("ended")
socket_onDisconnect(reason, jitter) ==
    /\ socketService.socket = "open"
    /\ socketService' =
          handleDisconnection([socketService EXCEPT
                                  !.socket = IF reason \in intentionalDisconnects
                                                THEN "ended" ELSE "closed"],
                              reason, jitter)
    /\ UNCHANGED <<server, locationTrackingService, eventService, hub>>

\* updateLocation(location)
updateLocation(s, location) ==
    emitWithErrorHandling([s EXCEPT !.issued = @ + 1],
                          [event |-> "updateLocation", data |-> location])

\* the page gives a message to the service; the messages are numbered
socket_emit ==
    /\ socketService.issued < MaxMessages
    /\ socketService' = updateLocation(socketService, socketService.issued + 1)
    /\ UNCHANGED <<server, locationTrackingService, eventService, hub>>

(***************************************************************************)
(* LocationTrackingService and the tracking functions of the page.         *)
(***************************************************************************)
Positions  == {0, 5, 20}
Accuracies == {10, 100}

\* the time between two readings: the update interval, or longer
Periods == {10000, 70000}

\* const timeThreshold = 60000
timeThreshold == 60000

\* _shouldUpdatePosition answering true for every reading
shouldUpdatePosition_always(t, position) == TRUE

\* _shouldUpdatePosition(position); _calculateDistance is the length of the
\* arc between the two points of the meridian
shouldUpdatePosition(t, position) ==
    IF t.lastPosition = NoPosition THEN TRUE
    ELSE IF t.batteryFriendly /\ position.accuracy > t.minAccuracy THEN FALSE
    ELSE \/ distance(t.lastPosition.position, position.position) > t.distanceFilter
         \/ position.timestamp - t.lastPosition.timestamp > timeThreshold

\* handleLocationUpdate(position), what it sends
handleLocationUpdate(s, h, position) ==
    IF h.userRole = "provider" /\ h.providerStatus = "online"
       THEN updateLocation(s, position.position)
       ELSE s

\* _notifyListeners(position): the listeners are handleLocationUpdate or none
notifyListeners(s, t, h, position) ==
    IF "handleLocationUpdate" \in t.locationListeners
       THEN handleLocationUpdate(s, h, position)
       ELSE s

\* _handlePositionUpdate(position): the reading of the geolocation API
\* reaches the service
handlePositionUpdate(position) ==
    /\ hub' = [hub EXCEPT !.clock = position.timestamp, !.readings = @ + 1]
    /\ IF shouldUpdatePosition(locationTrackingService, position)
          THEN /\ locationTrackingService' =
                     [locationTrackingService EXCEPT !.lastPosition = position]
               /\ socketService' =
                     LET s == notifyListeners(socketService, locationTrackingService,
                                              hub, position)
                     IN IF hub.userRole = "provider"
                           THEN updateLocation(s, position.position)
                           ELSE s
          ELSE UNCHANGED <<locationTrackingService, socketService>>

\* the readings the geolocation API can deliver next
Readings ==
    {[position |-> x, accuracy |-> a, timestamp |-> hub.clock + d] :
        x \in Positions, a \in Accuracies, d \in Periods}

\* startLocationTracking(): startTracking(), permission granted: the watch
\* and the interval timer are started
startLocationTracking ==
    /\ ~ hub.isProviderTracking /\ ~ hub.starting
    /\ ~ locationTrackingService.isTracking
    /\ locationTrackingService' = [locationTrackingService EXCEPT !.isTracking = TRUE]
    /\ hub' = [hub EXCEPT !.starting = TRUE]
    /\ UNCHANGED <<server, socketService, eventService>>

\* the initial position arrives: _handlePositionUpdate, then the promise
\* resolves: isProviderTracking = true, addLocationListener
startLocationTracking_then(position) ==
    /\ hub.starting /\ locationTrackingService.isTracking
    /\ hub.readings < MaxReadings
    /\ position \in Readings
    /\ LET t == locationTrackingService
           updated == shouldUpdatePosition(t, position)
       IN /\ locationTrackingService' =
                [t EXCEPT !.lastPosition = IF updated THEN position ELSE @,
                          !.locationListeners = @ \cup {"handleLocationUpdate"}]
          /\ socketService' =
                IF updated
                   THEN LET s == notifyListeners(socketService, t, hub, position)
                        IN IF hub.userRole = "provider"
                              THEN updateLocation(s, position.position)
                              ELSE s
                   ELSE socketService
    /\ hub' = [hub EXCEPT !.clock = position.timestamp, !.readings = @ + 1,
                          !.starting = FALSE, !.isProviderTracking = TRUE]
    /\ UNCHANGED <<server, eventService>>

\* watchPosition's callback or the interval timer's getCurrentPosition
tracker_position(position) ==
    /\ locationTrackingService.isTracking /\ ~ hub.starting
    /\ hub.readings < MaxReadings
    /\ position \in Readings
    /\ handlePositionUpdate(position)
    /\ UNCHANGED <<server, eventService>>

\* stopLocationTracking(): stopTracking() tells the listeners that tracking
\* stopped, which handleLocationUpdate does not send
stopLocationTracking ==
    /\ hub.isProviderTracking
    /\ locationTrackingService' = [locationTrackingService EXCEPT !.isTracking = FALSE]
    /\ hub' = [hub EXCEPT !.isProviderTracking = FALSE]
    /\ UNCHANGED <<server, socketService, eventService>>

\* setBatteryFriendly(enabled); a running tracker is stopped and started
\* again, which leaves it tracking
setBatteryFriendly(enabled) ==
    /\ locationTrackingService.batteryFriendly # enabled
    /\ locationTrackingService' =
          [locationTrackingService EXCEPT !.batteryFriendly = enabled]
    /\ UNCHANGED <<server, socketService, eventService, hub>>

\* localStorage.setItem('providerStatus', status)
setProviderStatus(status) ==
    /\ hub.providerStatus # status
    /\ hub' = [hub EXCEPT !.providerStatus = status]
    /\ UNCHANGED <<server, socketService, locationTrackingService, eventService>>

(***************************************************************************)
(* EventService: the event-stream client of the page.                      *)
(***************************************************************************)
\* disconnect()
EventService_disconnect(e) ==
    IF e.eventSource # "null"
       THEN [e EXCEPT !.eventSource = "null", !.isConnected = FALSE]
       ELSE e

\* connect(): close the connection there is, create the EventSource
EventService_connect(e) ==
    [EventService_disconnect(e) EXCEPT !.eventSource = "connecting"]

\* scheduleReconnect(): the timeout is currentReconnectTimeout * 1.5 *
\* jitter, in whole milliseconds; the timer's id is not kept
EventService_scheduleReconnect(e, jitter) ==
    IF e.reconnectAttempts + 1 > e.maxReconnectAttempts
       THEN [e EXCEPT !.reconnectAttempts = @ + 1]
       ELSE [e EXCEPT !.reconnectAttempts = @ + 1,
                      !.currentReconnectTimeout =
                          min((@ * 15 * jitter) \div 1000, e.maxReconnectTimeout),
                      !.timers = @ + 1]

\* handleConnectionError(error): this.eventSource.close(), scheduleReconnect
EventService_handleConnectionError(e, jitter) ==
    [EventService_scheduleReconnect(
        [e EXCEPT !.isConnected = FALSE,
                  !.eventSource = IF @ # "null" THEN "closed" ELSE @],
        jitter)
     EXCEPT !.connectionErrorShown = TRUE]

\* init(), a token being there: connect(), the window events are set up
eventService_init ==
    /\ ~ eventService.initialized
    /\ eventService' = [EventService_connect(eventService) EXCEPT !.initialized = TRUE]
    /\ UNCHANGED <<server, socketService, locationTrackingService, hub>>

\* eventSource.onopen
eventService_onopen ==
    /\ eventService.eventSource = "connecting"
    /\ eventService' = [eventService EXCEPT
                           !.eventSource = "open", !.isConnected = TRUE,
                           !.connectionErrorShown = FALSE, !.reconnectAttempts = 0,
                           !.currentReconnectTimeout = eventService.reconnectTimeout]
    /\ UNCHANGED <<server, socketService, locationTrackingService, hub>>

\* eventSource.onerror: the connection failed or was lost
eventService_onerror(jitter) ==
    /\ eventService.eventSource \in {"connecting", "open"}
    /\ eventService.reconnectAttempts < MaxFailures
    /\ eventService.timers < MaxTimers
    /\ eventService' = EventService_handleConnectionError(eventService, jitter)
    /\ UNCHANGED <<server, socketService, locationTrackingService, hub>>

\* a timer set by scheduleReconnect fires: this.connect()
eventService_timeout ==
    /\ eventService.timers > 0
    /\ eventService' = EventService_connect([eventService EXCEPT !.timers = @ - 1])
    /\ UNCHANGED <<server, socketService, locationTrackingService, hub>>

\* window 'online', or 'visibilitychange' to visible while not connected:
\* reconnect()
eventService_reconnect(event) ==
    /\ eventService.initialized
    /\ event = "visibilitychange" => ~ eventService.isConnected
    /\ eventService' = EventService_connect(EventService_disconnect(eventService))
    /\ UNCHANGED <<server, socketService, locationTrackingService, hub>>

\* window 'offline': disconnect()
eventService_offline ==
    /\ eventService.initialized
    /\ eventService' = EventService_disconnect(eventService)
    /\ UNCHANGED <<server, socketService, locationTrackingService, hub>>

(***************************************************************************)
(* Specification                                                           *)
(***************************************************************************)
Next ==
    \/ Tick /\ unwatched
    \/ \E c \in Slots : Return(c) /\ unwatched
    \/ \E c \in Slots, u \in Users : createRequest(c, u, Typical) /\ unwatched
    \/ \E c \in Slots, u \in Users, r \in ReqIds : acceptRequest_findUser(c, u, r) /\ unwatched
    \/ \E c \in Slots : acceptRequest_preFindOne(c) /\ unwatched
    \/ \E c \in Slots, n \in GeneratedPins : acceptRequest_findById(c, n) /\ unwatched
    \/ \E c \in Slots : acceptRequest_saveUser(c) /\ unwatched
    \/ \E c \in Slots : acceptRequest_saveRequest(c) /\ unwatched
    \/ \E c \in Slots, u \in Users, r \in ReqIds, p \in SubmittedPins :
          completeRequest_preFindOne(c, u, r, p) /\ unwatched
    \/ \E c \in Slots : completeRequest_findById(c) /\ unwatched
    \/ \E c \in Slots : completeRequest_saveRequest(c) /\ unwatched
    \/ \E c \in Slots : completeRequest_saveUser(c) /\ unwatched
    \/ \E c \in Slots, u \in Users, r \in ReqIds : cancelRequest_preFindOne(c, u, r) /\ unwatched
    \/ \E c \in Slots : cancelRequest_findById(c) /\ unwatched
    \/ \E c \in Slots : cancelRequest_saveRequest(c) /\ unwatched
    \/ \E c \in Slots, u \in Users, r \in ReqIds : getRequestPin_preFindOne(c, u, r) /\ unwatched
    \/ \E c \in Slots : getRequestPin_findById(c) /\ unwatched
    \/ \E c \in Slots, u \in Users : getRequestHistory_preFind(c, u) /\ unwatched
    \/ \E c \in Slots : getRequestHistory_find(c) /\ unwatched
    \/ \E c \in Slots, u \in Users : getActiveRequests_findUser(c, u) /\ unwatched
    \/ \E c \in Slots : getActiveRequests_preFind(c) /\ unwatched
    \/ \E c \in Slots : getActiveRequests_find(c) /\ unwatched
    \/ \E u \in Users : login(u) /\ unwatched
    \/ \E u \in Users : logout(u) /\ unwatched
    \/ \E u \in Users, s \in validStatuses : updateProviderStatus(u, s) /\ unwatched

Spec == Init /\ [][Next]_vars

(***************************************************************************)
(* Ownership: a second seeker, who created none of the requests, is        *)
(* registered and calls the handlers of a seeker's request.                *)
(***************************************************************************)
InitOwners ==
    /\ requests \in InitialStores
    /\ users = [u \in AllUsers |-> profiled(u)]
    /\ calls = [c \in Slots |-> Idle]
    /\ now = 0
    /\ invocations = 0
    /\ streams = [u \in AllUsers |-> Closed]
    /\ constructed

NextOwners ==
    \/ Tick /\ unwatched
    \/ \E c \in Slots : Return(c) /\ unwatched
    \/ \E c \in Slots, u \in AllUsers, r \in ReqIds : acceptRequest_findUser(c, u, r) /\ unwatched
    \/ \E c \in Slots : acceptRequest_preFindOne(c) /\ unwatched
    \/ \E c \in Slots, n \in GeneratedPins : acceptRequest_findById(c, n) /\ unwatched
    \/ \E c \in Slots : acceptRequest_saveUser(c) /\ unwatched
    \/ \E c \in Slots : acceptRequest_saveRequest(c) /\ unwatched
    \/ \E c \in Slots, u \in AllUsers, r \in ReqIds : cancelRequest_preFindOne(c, u, r) /\ unwatched
    \/ \E c \in Slots : cancelRequest_findById(c) /\ unwatched
    \/ \E c \in Slots : cancelRequest_saveRequest(c) /\ unwatched
    \/ \E c \in Slots, u \in AllUsers, r \in ReqIds : getRequestPin_preFindOne(c, u, r) /\ unwatched
    \/ \E c \in Slots : getRequestPin_findById(c) /\ unwatched

SpecOwners == InitOwners /\ [][NextOwners]_vars

(***************************************************************************)
(* Matching: requests of every category, near and far, and a provider p1   *)
(* with any skills, with or without a location, free or busy.              *)
(***************************************************************************)
Placed ==
    {[Typical EXCEPT !.category = cat, !.location = l] :
        cat \in Categories, l \in Locations}

\* what PUT /profile and PATCH /status can have made of a provider
Profiles(u) ==
    {[registered(u) EXCEPT !.skills = sk, !.location = l, !.status = st] :
        sk \in SUBSET Categories, l \in {NoLocation, Home},
        st \in {"offline", "in-progress"}}

InitMatching ==
    /\ requests \in stores(Placed)
    /\ \E profile \in Profiles("p1") :
          users = [u \in Users |-> IF u = "p1" THEN profile ELSE profiled(u)]
    /\ calls = [c \in Slots |-> Idle]
    /\ now = 0
    /\ invocations = 0
    /\ streams = [u \in AllUsers |-> Closed]
    /\ constructed

NextMatching ==
    \/ Tick /\ unwatched
    \/ \E c \in Slots : Return(c) /\ unwatched
    \/ \E c \in Slots, u \in Seekers, r \in ReqIds : cancelRequest_preFindOne(c, u, r) /\ unwatched
    \/ \E c \in Slots : cancelRequest_findById(c) /\ unwatched
    \/ \E c \in Slots : cancelRequest_saveRequest(c) /\ unwatched
    \/ \E c \in Slots, u \in Users : getActiveRequests_findUser(c, u) /\ unwatched
    \/ \E c \in Slots : getActiveRequests_preFind(c) /\ unwatched
    \/ \E c \in Slots : getActiveRequests_find(c) /\ unwatched

SpecMatching == InitMatching /\ [][NextMatching]_vars

(***************************************************************************)
(* Faults: the list and fetch reads of getRequestHistory, getRequestPin,   *)
(* getActiveRequests and acceptRequest, with expiry hooks that can throw.  *)
(***************************************************************************)
NextFaults ==
    \/ Tick /\ unwatched
    \/ \E c \in Slots : Return(c) /\ unwatched
    \/ \E c \in Slots, op \in {"pin", "history"}, u \in Users, r \in ReqIds :
          stands(c, op, u, r, Undefined) /\ unwatched
    \/ \E c \in Slots : sweepRuns(c) /\ unwatched
    \/ \E c \in Slots : sweepThrows(c) /\ unwatched
    \/ \E c \in Slots : catch(c) /\ unwatched
    \/ \E c \in Slots, u \in Users, r \in ReqIds : acceptRequest_findUser(c, u, r) /\ unwatched
    \/ \E c \in Slots : acceptRequest_preFindOne(c) /\ unwatched
    \/ \E c \in Slots, n \in GeneratedPins : acceptRequest_findById(c, n) /\ unwatched
    \/ \E c \in Slots : acceptRequest_saveUser(c) /\ unwatched
    \/ \E c \in Slots : acceptRequest_saveRequest(c) /\ unwatched
    \/ \E c \in Slots : getRequestPin_findById(c) /\ unwatched
    \/ \E c \in Slots : getRequestHistory_find(c) /\ unwatched
    \/ \E c \in Slots, u \in Users : getActiveRequests_findUser(c, u) /\ unwatched
    \/ \E c \in Slots : getActiveRequests_preFind(c) /\ unwatched
    \/ \E c \in Slots : getActiveRequests_find(c) /\ unwatched

SpecFaults == Init /\ [][NextFaults]_vars

(***************************************************************************)
(* Writes: acceptRequest and completeRequest by providers, with saves that *)
(* can fail.                                                               *)
(***************************************************************************)
NextWrites ==
    \/ Tick /\ unwatched
    \/ \E c \in Slots, u \in Providers, r \in ReqIds : acceptRequest_findUser(c, u, r)
          /\ unwatched
    \/ \E c \in Slots : acceptRequest_preFindOne(c) /\ unwatched
    \/ \E c \in Slots, n \in GeneratedPins : acceptRequest_findById(c, n) /\ unwatched
    \/ \E c \in Slots : acceptRequest_saveUser(c) /\ unwatched
    \/ \E c \in Slots : acceptRequest_saveRequest(c) /\ unwatched
    \/ \E c \in Slots, u \in Providers, r \in ReqIds, p \in SubmittedPins :
          completeRequest_preFindOne(c, u, r, p) /\ unwatched
    \/ \E c \in Slots : completeRequest_findById(c) /\ unwatched
    \/ \E c \in Slots : completeRequest_saveRequest(c) /\ unwatched
    \/ \E c \in Slots : completeRequest_saveUser(c) /\ unwatched
    \/ \E c \in Slots : saveThrows(c) /\ unwatched
    \/ \E c \in Slots : catch(c) /\ unwatched

SpecWrites == Init /\ [][NextWrites]_vars

(***************************************************************************)
(* Client: providers who logged in (status 'online') accept requests from  *)
(* their page, one run of the page per behaviour.                           *)
(***************************************************************************)
InitClient ==
    /\ requests \in InitialStores
    /\ users = [u \in Users |->
                  IF Role(u) = "provider" THEN [profiled(u) EXCEPT !.status = "online"]
                                          ELSE profiled(u)]
    /\ calls = [c \in Slots |-> Idle]
    /\ now = 0
    /\ invocations = 0
    /\ streams = [u \in AllUsers |-> Closed]
    /\ constructed

NextClient ==
    \/ Tick /\ unwatched
    \/ \E c \in Slots, u \in Providers, r \in ReqIds, st \in {"online", "offline"} :
          client_acceptRequest(c, u, r, st) /\ unwatched
    \/ \E c \in Slots : client_setActive(c) /\ unwatched
    \/ \E c, d \in Slots : client_fetchAccept(c, d) /\ unwatched
    \/ \E c, d \in Slots : client_response(c, d) /\ unwatched
    \/ \E c \in Slots : client_fetchRejects(c) /\ unwatched
    \/ \E c \in Slots : client_revert(c) /\ unwatched
    \/ \E c \in Slots : client_setInProgress(c) /\ unwatched
    \/ \E c \in Slots : acceptRequest_preFindOne(c) /\ unwatched
    \/ \E c \in Slots, n \in GeneratedPins : acceptRequest_findById(c, n) /\ unwatched
    \/ \E c \in Slots : acceptRequest_saveUser(c) /\ unwatched
    \/ \E c \in Slots : acceptRequest_saveRequest(c) /\ unwatched

SpecClient == InitClient /\ [][NextClient]_vars

(***************************************************************************)
(* Events: requests are created, accepted, cancelled and expired while     *)
(* users connect to and disconnect from GET /events; providers are online. *)
(***************************************************************************)
NextEvents ==
    \/ Tick /\ watched
    \/ \E c \in Slots, u \in Seekers : createRequest(c, u, Typical) /\ watched
    \/ \E c \in Slots, u \in Providers, r \in ReqIds : acceptRequest_findUser(c, u, r) /\ watched
    \/ \E c \in Slots : acceptRequest_preFindOne(c) /\ watched
    \/ \E c \in Slots, n \in GeneratedPins : acceptRequest_findById(c, n) /\ watched
    \/ \E c \in Slots : acceptRequest_saveUser(c) /\ watched
    \/ \E c \in Slots : acceptRequest_saveRequest(c) /\ watched
    \/ \E c \in Slots, u \in Seekers, r \in ReqIds : cancelRequest_preFindOne(c, u, r) /\ watched
    \/ \E c \in Slots : cancelRequest_findById(c) /\ watched
    \/ \E c \in Slots : cancelRequest_saveRequest(c) /\ watched
    \/ \E u \in Users : events(u)
    \/ \E u \in Users : close(u)
    \/ \E u \in Users : onChange_ignored(u)
    \/ \E u \in Users : onChange_preFindOne(u)
    \/ \E u \in Users : onChange_findById(u)

SpecEvents == InitClient /\ [][NextEvents]_vars

(***************************************************************************)
(* Socket: the socket client of a page, over a server that comes and goes. *)
(***************************************************************************)
InitPage ==
    /\ requests = << >>
    /\ users = [u \in Users |-> profiled(u)]
    /\ calls = [c \in Slots |-> Idle]
    /\ now = 0
    /\ invocations = 0
    /\ streams = [u \in AllUsers |-> Closed]
    /\ constructed

NextSocket ==
    \/ socket_connect
    \/ socket_reconnect
    \/ socket_onConnect
    \/ \E jitter \in Jitters : socket_onConnectError(jitter)
    \/ \E reason \in {"transport close", "io server disconnect"}, jitter \in Jitters :
          socket_onDisconnect(reason, jitter)
    \/ socket_emit

SpecSocket == InitPage /\ [][NextSocket]_vars

(***************************************************************************)
(* Tracking: a provider's page tracks its position and reports it through  *)
(* the socket client.                                                      *)
(***************************************************************************)
NextTracking ==
    \/ socket_connect
    \/ socket_onConnect
    \/ startLocationTracking
    \/ \E x \in Positions, a \in Accuracies, d \in Periods :
          startLocationTracking_then([position |-> x, accuracy |-> a,
                                      timestamp |-> hub.clock + d])
    \/ \E x \in Positions, a \in Accuracies, d \in Periods :
          tracker_position([position |-> x, accuracy |-> a,
                            timestamp |-> hub.clock + d])
    \/ stopLocationTracking
    \/ \E enabled \in BOOLEAN : setBatteryFriendly(enabled)
    \/ \E status \in {"online", "offline"} : setProviderStatus(status)

SpecTracking == InitPage /\ [][NextTracking]_vars

(***************************************************************************)
(* EventClient: the event-stream client of a page, with connection errors  *)
(* and the browser's online, offline and visibility events.                *)
(***************************************************************************)
NextEventClient ==
    \/ eventService_init
    \/ eventService_onopen
    \/ \E jitter \in Jitters : eventService_onerror(jitter)
    \/ eventService_timeout
    \/ \E event \in {"online", "visibilitychange"} : eventService_reconnect(event)
    \/ eventService_offline

SpecEventClient == InitPage /\ [][NextEventClient]_vars

(***************************************************************************)
(* Creation: POST /create with every body, over an empty store.            *)
(***************************************************************************)
InitCreate ==
    /\ requests = << >>
    /\ users = [u \in Users |-> profiled(u)]
    /\ calls = [c \in Slots |-> Idle]
    /\ now = 0
    /\ invocations = 0
    /\ streams = [u \in AllUsers |-> Closed]
    /\ constructed

NextCreate ==
    \/ Tick /\ unwatched
    \/ \E c \in Slots : Return(c) /\ unwatched
    \/ \E c \in Slots, u \in Users, body \in Bodies : createRequest(c, u, body) /\ unwatched
    \/ \E c \in Slots, u \in Users : getRequestHistory_preFind(c, u) /\ unwatched
    \/ \E c \in Slots : getRequestHistory_find(c) /\ unwatched

SpecCreate == InitCreate /\ [][NextCreate]_vars

(***************************************************************************)
(* Properties                                                              *)
(***************************************************************************)
Terminal    == {"completed", "cancelled", "expired"}
NonTerminal == {"pending", "in-progress"}

finished(c, op)  == calls[c].pc = "done" /\ calls[c].op = op
succeeded(c, op) == finished(c, op) /\ calls[c].result.code = 200

\* call c takes a step
steps(c) == calls'[c] # calls[c]

kinds(doc, kind) == {k \in DOMAIN doc.history : doc.history[k].status = kind}

\* C1: of two accept calls by different providers on the same request at most
\* one returns success; once one has, the other has answered 400, the
\* request has the winner as its provider, a PIN and exactly one 'accepted'
\* history entry, and the loser's status is not in-progress.
C1_AcceptRace ==
    \A c1, c2 \in Slots :
       (/\ c1 # c2
        /\ finished(c1, "accept") /\ finished(c2, "accept")
        /\ calls[c1].rid = calls[c2].rid
        /\ calls[c1].actor # calls[c2].actor
        /\ {calls[c1].actor, calls[c2].actor} \subseteq Providers
        /\ succeeded(c1, "accept"))
       => LET r == requests[calls[c1].rid]
          IN /\ calls[c2].result.code = 400
             /\ r.provider = calls[c1].actor
             /\ r.generatedPin # Undefined
             /\ Cardinality(kinds(r, "accepted")) = 1
             /\ users[calls[c2].actor].status # "in-progress"

\* C2: every change of a request's status is one of the five legal ones.
LegalTransitions ==
    {<<"pending", "in-progress">>, <<"pending", "cancelled">>,
     <<"in-progress", "completed">>, <<"pending", "expired">>,
     <<"in-progress", "expired">>}

C2_LegalTransitions ==
    [][\A i \in DOMAIN requests :
          requests'[i].status # requests[i].status
             => <<requests[i].status, requests'[i].status>> \in LegalTransitions]_vars

\* C3: a complete call goes on to write 'completed' and answer success
\* exactly when the request it fetched is in-progress and its stored PIN
\* equals the submitted one; otherwise it answers with an error and leaves
\* the request store as it is.
C3_CompleteIffPinAndInProgress ==
    [][\A c \in Slots :
          (calls[c].op = "complete" /\ calls[c].pc = "findById" /\ steps(c))
             => LET request == findById(requests, calls[c].rid)
                    ok == /\ request # NullDoc
                          /\ request.status = "in-progress"
                          /\ request.generatedPin = calls[c].pin
                IN /\ ok <=> calls'[c].pc = "saveRequest"
                   /\ ~ ok => /\ calls'[c].pc = "done"
                              /\ calls'[c].result.code # 200
                              /\ requests' = requests]_vars

\* C4: no provider is assigned to two in-progress requests.
inProgressOf(p) ==
    {i \in DOMAIN requests :
        requests[i].status = "in-progress" /\ requests[i].provider = p}

C4_OneInProgressPerProvider ==
    \A p \in Providers : Cardinality(inProgressOf(p)) <= 1

\* C5: a request in a terminal status never changes again.
C5_TerminalIsFrozen ==
    [][\A i \in DOMAIN requests :
          requests[i].status \in Terminal => requests'[i] = requests[i]]_vars

\* C6: a request becomes expired only from pending or in-progress, and only
\* when its expirationTime is before now.
C6_ExpiryOnlyOfOpenRequests ==
    [][\A i \in DOMAIN requests :
          (requests'[i].status = "expired" /\ requests[i].status # "expired")
             => /\ requests[i].status \in NonTerminal
                /\ requests[i].expirationTime < now]_vars

\* the requests the read that call c is about to do returns
readBy(c) ==
    IF calls[c].pc = "findById"
       THEN {calls[c].rid} \cap DOMAIN requests
    ELSE IF calls[c].pc = "find" /\ calls[c].op = "history"
       THEN historyQuery(requests, calls[c].actor, users[calls[c].actor].role)
    ELSE IF calls[c].pc = "find" /\ calls[c].op = "active"
       THEN activeQuery(requests, users[calls[c].actor], now)
    ELSE {}

\* C7: no read returns a request as pending or in-progress whose
\* expirationTime was before the time at which the read's expiry hook ran.
C7_ReadsSeeExpiry ==
    [][\A c \in Slots :
          steps(c) =>
             \A i \in readBy(c) :
                ~ (/\ requests[i].status \in NonTerminal
                   /\ requests[i].expirationTime < calls[c].currentTime)]_vars

\* C8: a new request gets expirationTime = creation time + duration, and
\* the expirationTime of an existing request never changes.
C8_ExpirationTimeFixed ==
    [][/\ \A i \in DOMAIN requests' \ DOMAIN requests :
             requests'[i].expirationTime = now + requests'[i].duration
       /\ \A i \in DOMAIN requests :
             requests'[i].expirationTime = requests[i].expirationTime]_vars

\* C9: an accept call whose write comes after the request was set to expired
\* changes neither the request nor the provider's status and does not
\* answer success.
C9_AcceptAfterExpiryFails ==
    [][\A c \in Slots :
          (/\ calls[c].op = "accept"
           /\ calls[c].pc \in {"saveUser", "saveRequest"}
           /\ steps(c)
           /\ requests[calls[c].rid].status = "expired")
             => /\ requests' = requests
                /\ users' = users
                /\ calls'[c].pc = "done" => calls'[c].result.code # 200]_vars

\* C10: a seeker's cancel and a provider's accept of the same request never
\* both return success: when the cancel has, the accept has answered 400,
\* the request is cancelled with no provider and the provider is not
\* in-progress; when the accept has, the cancel has answered 400 and the
\* request is not cancelled.
C10_CancelAcceptRace ==
    \A c1, c2 \in Slots :
       (/\ finished(c1, "cancel") /\ finished(c2, "accept")
        /\ calls[c1].rid = calls[c2].rid
        /\ calls[c1].actor \in Seekers /\ calls[c2].actor \in Providers)
       => LET r == requests[calls[c1].rid]
          IN /\ succeeded(c1, "cancel")
                  => /\ calls[c2].result.code = 400
                     /\ r.status = "cancelled"
                     /\ r.provider = Null
                     /\ users[calls[c2].actor].status # "in-progress"
             /\ succeeded(c2, "accept")
                  => /\ calls[c1].result.code = 400
                     /\ r.status # "cancelled"

\* call c answers with this status code and message in this step
answers(c, code, message) ==
    /\ calls'[c].pc = "done"
    /\ calls'[c].result.code = code
    /\ calls'[c].result.message = message

\* C11: a cancel call on a request whose seeker is not the caller never goes
\* on to write the request and never answers success.
C11_CancelByOwnerOnly ==
    [][\A c \in Slots :
          (/\ calls'[c].op = "cancel" /\ steps(c)
           /\ calls'[c].rid \in DOMAIN requests
           /\ requests[calls'[c].rid].seeker # calls'[c].actor)
             => /\ calls'[c].pc # "saveRequest"
                /\ calls'[c].pc = "done" => calls'[c].result.code # 200]_vars

\* C12: a complete call by an actor who is not a provider never goes on to
\* write the request or a user, never answers success and changes no
\* user's status.
C12_CompleteByProviderOnly ==
    [][\A c \in Slots :
          (/\ calls'[c].op = "complete" /\ steps(c)
           /\ users[calls'[c].actor].role # "provider")
             => /\ calls'[c].pc \notin {"saveRequest", "saveUser"}
                /\ calls'[c].pc = "done" => calls'[c].result.code # 200
                /\ users' = users]_vars

\* C13: the save of a successful accept by P leaves the request with
\* provider P, status in-progress, a PIN in 100000..999999, pinGeneratedAt
\* set and exactly one more history entry {P, accepted}, and P in-progress.
C13_AcceptEffects ==
    [][\A c \in Slots :
          (calls[c].op = "accept" /\ calls[c].pc = "saveRequest" /\ steps(c))
             => LET P == calls[c].actor
                    R == calls[c].rid
                IN /\ requests'[R].provider = P
                   /\ requests'[R].status = "in-progress"
                   /\ requests'[R].generatedPin[1] = "string"
                   /\ requests'[R].generatedPin[2] \in MinPin..MaxPin
                   /\ requests'[R].pinGeneratedAt # Undefined
                   /\ requests'[R].history =
                         Append(requests[R].history, [provider |-> P, status |-> "accepted"])
                   /\ users'[P].status = "in-progress"]_vars

C15_CompleteEffects ==
    [][\A c \in Slots :
          LET R == calls[c].rid
          IN /\ (calls[c].op = "complete" /\ calls[c].pc = "saveRequest" /\ steps(c)
                    /\ calls[c].doc.status = "in-progress")
                   => /\ requests'[R].status = "completed"
                      /\ requests'[R].history =
                            Append(requests[R].history,
                                   [provider |-> requests[R].provider, status |-> "completed"])
             /\ (calls[c].op = "complete" /\ calls[c].pc = "saveUser" /\ steps(c)
                    /\ calls[c].doc.status = "in-progress"
                    /\ requests[R].provider # Null)
                   => users'[requests[R].provider].status = "online"
             /\ (calls[c].op = "complete" /\ steps(c) /\ answers(c, 400, "Invalid PIN"))
                   => requests' = requests /\ users' = users]_vars

C17_ActiveWithinFiveKm ==
    [][\A c \in Slots :
          (calls[c].op = "active" /\ calls[c].pc = "find" /\ steps(c))
             => LET user == users[calls[c].actor]
                IN {e[1] : e \in calls'[c].result.body} =
                      {i \in DOMAIN requests :
                          /\ requests[i].category \in user.skills
                          /\ requests[i].status = "pending"
                          /\ requests[i].expirationTime >= now
                          /\ distance(requests[i].location, user.location) <= 5}]_vars

\* C18: the active-requests query answers 403 to an actor who is not a
\* provider, 400 (ongoing request) to a provider who is in-progress and
\* 400 (Invalid location) to a provider without coordinates, and goes on
\* to the query otherwise; a failure lists no request and changes nothing.
C18_ActiveFailures ==
    [][\A c \in Slots :
          /\ (calls[c].pc = "idle" /\ calls'[c].op = "active")
                => LET u == users[calls'[c].actor]
                   IN /\ u.role # "provider"
                           => answers(c, 403, "Only providers can view service requests")
                      /\ (u.role = "provider" /\ u.status = "in-progress")
                           => answers(c, 400, "You have an ongoing request in progress.")
                      /\ (u.role = "provider" /\ u.status # "in-progress"
                             /\ u.location = NoLocation)
                           => answers(c, 400, "Invalid location")
                      /\ (u.role = "provider" /\ u.status # "in-progress"
                             /\ u.location # NoLocation)
                           => calls'[c].pc = "preFind"
          /\ (calls'[c].op = "active" /\ calls'[c].pc = "done" /\ steps(c)
                 /\ calls'[c].result.code # 200)
                => /\ calls[c].pc = "idle"
                   /\ calls'[c].result.body = {}
                   /\ requests' = requests
                   /\ users' = users]_vars

\* a provider without coordinates has been answered Invalid location
\* while a request of one of their skills is pending
C18_Witness ==
    \E c \in Slots :
       /\ finished(c, "active")
       /\ calls[c].result = [code |-> 400, message |-> "Invalid location", body |-> {}]
       /\ users[calls[c].actor].location = NoLocation
       /\ \E i \in DOMAIN requests :
             /\ requests[i].status = "pending"
             /\ requests[i].category \in users[calls[c].actor].skills

\* a body with a category, a description, a contact number, a location and
\* a duration that is an integer of at least 1
wellFormed(body) ==
    /\ body.category # "" /\ body.description # "" /\ body.contactNumber # ""
    /\ body.location # NoLocation
    /\ body.duration # Undefined /\ body.duration[2] >= 1

\* C19: a create by a seeker with a well-formed body answers 201 and
\* appends one request to the store, with the caller as seeker, status
\* pending, no provider, no PIN, an empty history and expirationTime = now +
\* duration; a create by an actor who is not a seeker answers 403 and
\* leaves the store unchanged.
C19_Create ==
    [][\A c \in Slots :
          (calls[c].pc = "idle" /\ calls'[c].op = "create")
             => LET actor == calls'[c].actor
                    body == calls'[c].body
                    n == Len(requests)
                IN /\ users[actor].role # "seeker"
                        => /\ answers(c, 403, "Only seekers can create service requests")
                           /\ requests' = requests
                   /\ (users[actor].role = "seeker" /\ wellFormed(body))
                        => /\ calls'[c].pc = "done" /\ calls'[c].result.code = 201
                           /\ Len(requests') = n + 1
                           /\ SubSeq(requests', 1, n) = requests
                           /\ requests'[n + 1].seeker = actor
                           /\ requests'[n + 1].status = "pending"
                           /\ requests'[n + 1].provider = Null
                           /\ requests'[n + 1].generatedPin = Undefined
                           /\ requests'[n + 1].history = << >>
                           /\ requests'[n + 1].duration = body.duration[2]
                           /\ requests'[n + 1].expirationTime = now + body.duration[2]]_vars

\* a seeker's well-formed create at a time after 0 has been answered 201 and
\* its request is in the store
C19_Witness ==
    \E c \in Slots :
       /\ finished(c, "create")
       /\ calls[c].result.code = 201
       /\ wellFormed(calls[c].body)
       /\ calls[c].rid \in DOMAIN requests
       /\ requests[calls[c].rid].status = "pending"
       /\ requests[calls[c].rid].expirationTime > requests[calls[c].rid].duration

\* C20: a create with a body that is not well-formed answers with a 4xx
\* status and leaves the store unchanged.
C20_CreateMalformed ==
    [][\A c \in Slots :
          (/\ calls[c].pc = "idle" /\ calls'[c].op = "create"
           /\ ~ wellFormed(calls'[c].body))
             => /\ calls'[c].result.code \in 400..499
                /\ requests' = requests]_vars

\* C21: a request has a PIN exactly when it is in-progress or has been (it
\* then has an 'accepted' history entry, which the save that makes it
\* in-progress pushes); so every completed request has one.
C21_PinIffAccepted ==
    \A i \in DOMAIN requests :
       LET r == requests[i]
       IN /\ r.generatedPin # Undefined
               <=> (r.status = "in-progress" \/ kinds(r, "accepted") # {})
          /\ r.status = "completed" => r.generatedPin # Undefined

\* call c runs an expiry hook in this step
sweeps(c) ==
    /\ steps(c)
    /\ calls'[c].pc \in {"find", "findById"}
    /\ calls[c].pc \notin {"find", "findById"}

C23_SweepFrame ==
    [][\A c \in Slots :
          sweeps(c)
             => /\ users' = users
                /\ DOMAIN requests' = DOMAIN requests
                /\ \A i \in DOMAIN requests :
                      \/ requests'[i] = requests[i]
                      \/ requests'[i] = [requests[i] EXCEPT !.status = "expired"]]_vars

\* a request accepted by a provider has been expired by a sweep: it keeps
\* its provider, PIN and history, and the provider is still in-progress
C23_Witness ==
    \E i \in DOMAIN requests :
       /\ requests[i].status = "expired"
       /\ requests[i].provider \in Providers
       /\ requests[i].generatedPin # Undefined
       /\ Len(requests[i].history) = 1
       /\ users[requests[i].provider].status = "in-progress"

\* C24: the PIN fetch answers with the PIN exactly when the request it read
\* has the caller as seeker and is in-progress; it answers 403 and no PIN
\* to any other caller, and 400 and no PIN to the seeker for any other
\* status.
C24_PinFetch ==
    [][\A c \in Slots :
          (calls[c].op = "pin" /\ calls[c].pc = "findById" /\ steps(c))
             => LET request == findById(requests, calls[c].rid)
                    mine == request.seeker = calls[c].actor
                IN /\ request = NullDoc => answers(c, 404, "Request not found")
                   /\ (request # NullDoc /\ ~ mine)
                        => answers(c, 403, "Not authorized to access this request")
                   /\ (request # NullDoc /\ mine /\ request.status # "in-progress")
                        => answers(c, 400, "PIN is only available for in-progress requests")
                   /\ (request # NullDoc /\ mine /\ request.status = "in-progress")
                        => /\ calls'[c].result.code = 200
                           /\ calls'[c].result.body =
                                 {<<calls[c].rid, "in-progress", request.generatedPin>>}
                   /\ calls'[c].result.code # 200 => calls'[c].result.body = {}]_vars

\* another seeker's PIN fetch of an in-progress request has been answered 403
C24_Witness ==
    \E c \in Slots :
       /\ finished(c, "pin")
       /\ calls[c].result.code = 403
       /\ calls[c].actor \in OtherSeekers
       /\ requests[calls[c].rid].status = "in-progress"
       /\ requests[calls[c].rid].generatedPin # Undefined

\* a history log is empty, or one 'accepted' entry, or one 'accepted' entry
\* and one 'completed' entry by the same provider
wellShaped(history) ==
    \/ history = << >>
    \/ /\ Len(history) \in {1, 2}
       /\ history[1].status = "accepted"
       /\ Len(history) = 2 => /\ history[2].status = "completed"
                              /\ history[2].provider = history[1].provider

\* C29: every step leaves each request's history with the old history as
\* a prefix, and every history is well-shaped.
C29_HistoryShape ==
    [][\A i \in DOMAIN requests :
          /\ Len(requests'[i].history) >= Len(requests[i].history)
          /\ SubSeq(requests'[i].history, 1, Len(requests[i].history))
                = requests[i].history
          /\ wellShaped(requests'[i].history)]_vars

\* C30: a complete call that submits the request's PIN and whose caller is
\* not the request's provider answers with an error and changes neither
\* the request store nor the user store.
C30_CompleteByAssignedOnly ==
    [][\A c \in Slots :
          (calls[c].op = "complete" /\ calls[c].pc = "findById" /\ steps(c))
             => LET request == findById(requests, calls[c].rid)
                IN (/\ request # NullDoc
                    /\ request.generatedPin # Undefined
                    /\ request.generatedPin = calls[c].pin
                    /\ request.provider # calls[c].actor)
                     => /\ calls'[c].pc = "done"
                        /\ calls'[c].result.code # 200
                        /\ requests' = requests
                        /\ users' = users]_vars

\* C27: a call whose expiry hook threw never gets to its find / findById:
\* it is in its catch block or has answered 500 Server error with no
\* request data.
C27_SweepFailureAbortsRead ==
    \A c \in Slots :
       calls[c].error = "sweep"
          => /\ calls[c].pc \in {"catch", "done"}
             /\ calls[c].pc = "done"
                  => calls[c].result = [code |-> 500, message |-> "Server error",
                                        body |-> {}]

\* a read whose hook threw has answered 500 while the store holds a pending
\* request past its expirationTime
C27_Witness ==
    \E c \in Slots :
       /\ calls[c].error = "sweep" /\ calls[c].pc = "done"
       /\ calls[c].op \in {"history", "active"}
       /\ \E i \in DOMAIN requests :
             requests[i].status = "pending" /\ requests[i].expirationTime < now

\* C28: when a run of the page's acceptRequest that went past the online
\* check has ended, the provider's status is not 'active'.
C28_ActiveIsTransient ==
    \A c \in Slots :
       (calls[c].op = "client" /\ calls[c].pc = "done" /\ calls[c].user # "offline")
          => users[calls[c].actor].status # "active"

\* the 'change' callback of u's connection finishes in this step
called(u) ==
    /\ streams[u].open /\ streams[u].changes # <<>>
    /\ streams'[u].open /\ streams'[u].pc = "idle"
    /\ streams'[u].changes = Tail(streams[u].changes)

\* C25: the callback of an update of a request writes a requestUpdated event
\* carrying the request (with its PIN when the request is in-progress) to a
\* connection of the user who was the request's seeker or provider at the
\* change, and writes nothing to a connection of a user who neither was
\* then nor is now the request's seeker or provider.
C25_UpdateNotifiesParties ==
    [][\A u \in Users :
          LET change == Head(streams[u].changes)
              sent   == streams'[u].written
              request == requests[change.documentKey]
          IN (called(u) /\ change.operationType = "update") =>
                /\ u \in {change.seeker, change.provider}
                      => /\ Len(sent) = Len(streams[u].written) + 1
                         /\ sent[Len(sent)].event = "requestUpdated"
                         /\ sent[Len(sent)].id = change.documentKey
                         /\ sent[Len(sent)].data = request
                         /\ request.status = "in-progress"
                               => request.generatedPin # Undefined
                /\ u \notin {change.seeker, change.provider, request.seeker, request.provider}
                      => sent = streams[u].written]_vars

\* the provider's skills hold the request's category and the request lies
\* within the matching radius of the provider
eligible(user, request) ==
    /\ request.category \in user.skills
    /\ geoWithin(request.location, user.location, radians(radius))

\* C26: the callback of the insert of a request writes an event to the
\* connection of a provider who is online and eligible for the request.
C26_CreateNotifiesProviders ==
    [][\A u \in Providers :
          LET change == Head(streams[u].changes)
          IN (/\ called(u) /\ change.operationType = "insert"
              /\ users[u].status = "online"
              /\ eligible(users[u], requests[change.documentKey]))
                => Len(streams'[u].written) > Len(streams[u].written)]_vars

\* C31: when no handler is in flight, a provider's status is in-progress if
\* and only if a request with status in-progress is assigned to that provider.
C31_InProgressIffAssigned ==
    (\A c \in Slots : calls[c].pc \in {"idle", "done"})
       => \A p \in Providers :
             users[p].status = "in-progress" <=> inProgressOf(p) # {}

\* C32: when a save of acceptRequest or completeRequest fails, the other
\* write of the handler has not been applied: a failed accept does not leave
\* its provider in-progress without the request, a failed complete of a
\* request does not leave the request completed.
C32_WritesAllOrNothing ==
    [][\A c \in Slots :
          (calls[c].error = "" /\ calls'[c].error = "save") =>
             LET actor == calls[c].actor
                 rid   == calls[c].rid
             IN /\ calls[c].op = "accept" =>
                      ~ /\ users'[actor].status = "in-progress"
                        /\ ~ (requests'[rid].status = "in-progress"
                                /\ requests'[rid].provider = actor)
                /\ (calls[c].op = "complete" /\ calls[c].doc.status # "completed") =>
                      ~ /\ requests'[rid].status = "completed"
                        /\ users'[actor].status # "online"]_vars

\* C33: no response to a provider's accept and no event written to a
\* provider's connection carries the request's verification code.
C33_CodeOnlyToSeeker ==
    /\ \A c \in Slots :
          (finished(c, "accept") /\ users[calls[c].actor].role = "provider")
             => \A request \in calls[c].result.body : request[3] = Undefined
    /\ \A u \in Providers :
          \A k \in DOMAIN streams[u].written :
             streams[u].written[k].data.generatedPin = Undefined

\* C34: while fewer than maxReconnectAttempts attempts have been made, a
\* socket whose connection failed or was lost has a reconnect attempt
\* scheduled.
C34_ReconnectKeepsGoing ==
    (/\ socketService.socket \in {"failed", "closed"}
     /\ socketService.reconnectAttempts < socketService.maxReconnectAttempts)
       => socketService.reconnectTimerId

\* C35: a message given to the service while it is not connected joins the
\* end of the queue and is not emitted; a successful connection emits the
\* queue in order and empties it; no other step changes the queue, and no
\* step takes a message out of what was emitted or emits other than at the
\* end.  The messages queued and emitted are then the messages issued, each
\* once.
C35_QueueFlushedOnce ==
    [][LET s == socketService
           t == socketService'
       IN /\ (t.issued = s.issued + 1 /\ ~ s.connected)
                => /\ t.pendingMessages = Append(s.pendingMessages,
                                                 [event |-> "updateLocation",
                                                  data |-> t.issued])
                   /\ t.emitted = s.emitted
          /\ (~ s.connected /\ t.connected)
                => /\ t.emitted = s.emitted \o s.pendingMessages
                   /\ t.pendingMessages = <<>>
          /\ (t.issued = s.issued /\ s.connected = t.connected)
                => /\ t.pendingMessages = s.pendingMessages
                   /\ t.emitted = s.emitted
          /\ Len(t.emitted) + Len(t.pendingMessages) = t.issued
          /\ \A i, j \in DOMAIN t.emitted : i < j => t.emitted[i].data < t.emitted[j].data
      ]_vars

C35_Witness ==
    /\ socketService.connected
    /\ socketService.sending >= 2
    /\ Len(socketService.emitted) = MaxMessages
    /\ socketService.pendingMessages = <<>>
    /\ socketService.reconnectAttempts = 0
    /\ socketService.currentReconnectDelay = socketService.initialReconnectDelay

\* a reading reaches the tracking service in this step
read == hub'.readings = hub.readings + 1

\* the reading of this step is propagated: messages are sent or the last
\* propagated position changes
propagated ==
    \/ socketService'.issued # socketService.issued
    \/ locationTrackingService'.lastPosition # locationTrackingService.lastPosition

\* C36: a reading is propagated only if it is the first one, or lies more
\* than 10 metres from the last propagated one, or is timestamped more than
\* 60 seconds after it; a reading that is not leaves the last propagated
\* position as it was and sends nothing.
C36_ThrottledPropagation ==
    [][LET last == locationTrackingService.lastPosition
           new  == locationTrackingService'.lastPosition
       IN /\ propagated => read
          /\ (read /\ propagated) =>
                /\ new.timestamp = hub'.clock
                /\ \/ last = NoPosition
                   \/ distance(last.position, new.position) > 10
                   \/ new.timestamp - last.timestamp > 60000
          /\ (read /\ new = last) => socketService' = socketService
      ]_vars

C36_Witness ==
    /\ hub.readings = MaxReadings
    /\ locationTrackingService.lastPosition # NoPosition
    /\ locationTrackingService.lastPosition.timestamp < hub.clock
    /\ socketService.issued >= 2

\* C37: a reading timestamped more than 60 seconds after the last
\* propagated reading becomes the last propagated reading.
C37_StaleReadingPropagated ==
    [][(/\ read
        /\ locationTrackingService.lastPosition # NoPosition
        /\ hub'.clock - locationTrackingService.lastPosition.timestamp > 60000)
          => locationTrackingService'.lastPosition.timestamp = hub'.clock]_vars

\* C38: while the provider is online and tracking was started by the page,
\* a propagated reading gives the socket client one updateLocation message.
C38_OneMessagePerReading ==
    [][(/\ read /\ propagated
        /\ hub.isProviderTracking /\ hub.providerStatus = "online")
          => socketService'.issued = socketService.issued + 1]_vars

\* C39: the event-stream client has at most one reconnect timer pending.
C39_OneReconnectTimer == eventService.timers <= 1

====
